---- MODULE Spec2Model ----
(***************************************************************************)
(* Model of the rls placement geometry (src/src/circuits/mod.rs), of the   *)
(* gate evaluation folds (src/src/circuits/gates/*.rs) and of the board    *)
(* keys of the editor (src/src/ui/views.rs) with the propagation scheduler *)
(* they act on.                                                            *)
(*                                                                         *)
(* Vec2usize values are records [x, y].  Coordinates are kept as           *)
(* mathematical integers: a negative coordinate is the result of an        *)
(* unsigned subtraction below zero (a debug build panics there, a release  *)
(* build wraps to the value + 2^64); in neither build is it a cell of a    *)
(* footprint.                                                              *)
(*                                                                         *)
(* Option<T> values of enum types are strings, "None" standing for None.   *)
(***************************************************************************)
EXTENDS Integers, Sequences, FiniteSets, TLC

VARIABLES imp, transform, inner_size, transformed_size, pins, probe,
          gate, inputs, parity, idx, state, state0, out, fin, pc,
          ordered_queue, board_lock, sim_lock, ui, simth,
          topo, inval, cout, wval, cur, nxt, iter, status, steps, expected,
          boards, active, selected_id, paste, debug, props, panicked, last, frame

vars == <<imp, transform, inner_size, transformed_size, pins, probe,
          gate, inputs, parity, idx, state, state0, out, fin, pc,
          ordered_queue, board_lock, sim_lock, ui, simth,
          topo, inval, cout, wval, cur, nxt, iter, status, steps, expected,
          boards, active, selected_id, paste, debug, props, panicked, last, frame>>

\* the locks of a board and the two threads that take them
lockVars == <<board_lock, sim_lock, ui, simth>>

\* the circuits and wires of a board and its propagation queue
schedVars == <<topo, inval, cout, wval, cur, nxt, iter, status, steps, expected>>

\* the fields of the CircuitBoardEditor and the input of its last frame
editorVars == <<boards, active, selected_id, paste, debug, props, panicked, last, frame>>

boardVars == <<ordered_queue, lockVars, schedVars, editorVars>>

geomVars == <<imp, transform, inner_size, transformed_size, pins, probe>>

gateVars == <<gate, inputs, parity, idx, state, state0, out, fin, pc>>

(***************************************************************************)
(* Bounds                                                                  *)
(***************************************************************************)
MaxSize == 3

MaxInputs == 4

\* the number of presses of key Q followed
MaxToggles == 3

\* boards the simulation can hold at once
MaxBoards == 3

\* keys pressed within one frame
MaxKeys == 2

(***************************************************************************)
(* Vectors and directions                                                  *)
(***************************************************************************)
Vec(a, b) == [x |-> a, y |-> b]

swapped(v) == Vec(v.y, v.x)

Sizes == {Vec(w, h) : w \in 1..MaxSize, h \in 1..MaxSize}

Cells(size) == {Vec(a, b) : a \in 0..(size.x - 1), b \in 0..(size.y - 1)}

InFootprint(p, size) == p.x >= 0 /\ p.x < size.x /\ p.y >= 0 /\ p.y < size.y

Direction4 == {"Up", "Left", "Down", "Right"}

Direction8 == {"Up", "UpRight", "Right", "DownRight",
               "Down", "DownLeft", "Left", "UpLeft"}

\* Direction4 in counter-clockwise order: Up, Left, Down, Right.
D4Index(d) == CASE d = "Up" -> 0 [] d = "Left" -> 1 [] d = "Down" -> 2 [] d = "Right" -> 3

D4FromIndex(i) == CASE i = 0 -> "Up" [] i = 1 -> "Left" [] i = 2 -> "Down" [] i = 3 -> "Right"

\* Direction8 in clockwise order starting at Up.
D8Index(d) == CASE d = "Up" -> 0 [] d = "UpRight" -> 1 [] d = "Right" -> 2
                [] d = "DownRight" -> 3 [] d = "Down" -> 4 [] d = "DownLeft" -> 5
                [] d = "Left" -> 6 [] d = "UpLeft" -> 7

D8FromIndex(i) == CASE i = 0 -> "Up" [] i = 1 -> "UpRight" [] i = 2 -> "Right"
                    [] i = 3 -> "DownRight" [] i = 4 -> "Down" [] i = 5 -> "DownLeft"
                    [] i = 6 -> "Left" [] i = 7 -> "UpLeft"

is_vertical(d) == d \in {"Up", "Down"}

\* self turned back by the angle of other: equal directions give Up.
rotated_counterclockwise_by(self, other) ==
    D4FromIndex((D4Index(self) + 4 - D4Index(other)) % 4)

rotate_clockwise(d) == D4FromIndex((D4Index(d) + 3) % 4)

D4IntoD8(d) == d

D8_rotated_clockwise_by(self, other) == D8FromIndex((D8Index(self) + D8Index(other)) % 8)

\* mirror image of self across the axis through other
D8_flip_by(self, other) == D8FromIndex((2 * D8Index(other) + 8 - D8Index(self)) % 8)

D8_inverted(self) == D8FromIndex((D8Index(self) + 4) % 8)

\* the step of one cell in a direction; y grows downwards
D8_into_dir_isize(d) ==
    Vec(CASE d \in {"UpRight", "Right", "DownRight"} -> 1
          [] d \in {"UpLeft", "Left", "DownLeft"} -> -1
          [] OTHER -> 0,
        CASE d \in {"DownLeft", "Down", "DownRight"} -> 1
          [] d \in {"UpLeft", "Up", "UpRight"} -> -1
          [] OTHER -> 0)

VecAdd(a, b) == Vec(a.x + b.x, a.y + b.y)

(***************************************************************************)
(* Transform support                                                       *)
(***************************************************************************)
TransformSupport == {"Automatic", "Manual"}

FlipType == {"Vertical", "Horizontal", "Both"}

\* Option<TransformSupport> as passed to the transform functions
SupportFilter == {"None"} \cup TransformSupport

NoRotation == [present |-> FALSE, support |-> "Automatic", default_dir |-> "Up"]

NoFlip == [present |-> FALSE, support |-> "Automatic", ty |-> "Vertical"]

RotationSupports ==
    {NoRotation} \cup [present : {TRUE}, support : TransformSupport, default_dir : Direction4]

FlipSupports ==
    {NoFlip} \cup [present : {TRUE}, support : TransformSupport, ty : FlipType]

CircuitTransformSupport == [rotation : RotationSupports, flip : FlipSupports]

rotation_default_dir(self, support) ==
    IF ~self.rotation.present THEN "None"
    ELSE IF support # "None" /\ self.rotation.support # support THEN "None"
    ELSE self.rotation.default_dir

\* flip_type without the check of the requested support
flip_type_unfiltered(self, support) ==
    IF ~self.flip.present THEN "None" ELSE self.flip.ty

flip_type(self, support) ==
    IF ~self.flip.present THEN "None"
    ELSE IF support # "None" /\ self.flip.support # support THEN "None"
    ELSE self.flip.ty

(***************************************************************************)
(* CircuitTransform: [support, dir, flip]                                  *)
(***************************************************************************)
\* transform_size without the check of the requested support
transform_size_unfiltered(self, size, support) ==
    IF ~self.support.rotation.present THEN size
    ELSE IF is_vertical(self.support.rotation.default_dir) = is_vertical(self.dir) THEN size
    ELSE swapped(size)

transform_size(self, size, support) ==
    LET default_dir == rotation_default_dir(self.support, support)
    IN  IF default_dir = "None" THEN size
        ELSE IF is_vertical(default_dir) = is_vertical(self.dir) THEN size
        ELSE swapped(size)

\* rotate_pos mirroring Left against the wrong extent
rotate_pos_wrong_extent(pos, target_size, dir) ==
    CASE dir = "Up" -> pos
      [] dir = "Left" -> Vec(pos.y, target_size.x - pos.x - 1)
      [] dir = "Down" -> Vec(target_size.x - pos.x - 1, target_size.y - pos.y - 1)
      [] dir = "Right" -> Vec(target_size.x - pos.y - 1, pos.x)

rotate_pos(pos, target_size, dir) ==
    CASE dir = "Up" -> pos
      [] dir = "Left" -> Vec(pos.y, target_size.y - pos.x - 1)
      [] dir = "Down" -> Vec(target_size.x - pos.x - 1, target_size.y - pos.y - 1)
      [] dir = "Right" -> Vec(target_size.x - pos.y - 1, pos.x)

\* the position after the flip step of transform_pos
transform_pos_flipped_pos(self, size, pos, support) ==
    LET flip == IF self.flip THEN flip_type(self.support, support) ELSE "None"
    IN  CASE flip = "None" -> pos
          [] flip = "Vertical" -> Vec(pos.x, size.y - pos.y - 1)
          [] flip = "Horizontal" -> Vec(size.x - pos.x - 1, pos.y)
          [] flip = "Both" -> Vec(size.x - pos.x - 1, size.y - pos.y - 1)

\* transform_pos turning inside the unturned extents
transform_pos_unswapped(self, size, pos, support) ==
    LET flipped_pos == transform_pos_flipped_pos(self, size, pos, support)
        default_dir == rotation_default_dir(self.support, support)
    IN  IF default_dir = "None" THEN flipped_pos
        ELSE rotate_pos(flipped_pos, size,
                        rotated_counterclockwise_by(self.dir, default_dir))

transform_pos(self, size, pos, support) ==
    LET flip == IF self.flip THEN flip_type(self.support, support) ELSE "None"
        flipped_pos ==
            CASE flip = "None" -> pos
              [] flip = "Vertical" -> Vec(pos.x, size.y - pos.y - 1)
              [] flip = "Horizontal" -> Vec(size.x - pos.x - 1, pos.y)
              [] flip = "Both" -> Vec(size.x - pos.x - 1, size.y - pos.y - 1)
        default_dir == rotation_default_dir(self.support, support)
    IN  IF default_dir = "None" THEN flipped_pos
        ELSE LET dir == rotated_counterclockwise_by(self.dir, default_dir)
                 tsize == IF is_vertical(default_dir) = is_vertical(self.dir)
                          THEN size ELSE swapped(size)
             IN  rotate_pos(flipped_pos, tsize, dir)

\* the position after the rotation step of backtransform_pos
backtransform_pos_rotated_pos(self, size, pos, support) ==
    LET default_dir == rotation_default_dir(self.support, support)
    IN  IF default_dir = "None" THEN pos
        ELSE rotate_pos(pos, size, rotated_counterclockwise_by(default_dir, self.dir))

backtransform_pos(self, size, pos, support) ==
    LET default_dir == rotation_default_dir(self.support, support)
        rotated_pos ==
            IF default_dir = "None" THEN pos
            ELSE rotate_pos(pos, size, rotated_counterclockwise_by(default_dir, self.dir))
        flip == IF self.flip THEN flip_type(self.support, support) ELSE "None"
    IN  CASE flip = "None" -> rotated_pos
          [] flip = "Vertical" -> Vec(rotated_pos.x, size.y - rotated_pos.y - 1)
          [] flip = "Horizontal" -> Vec(size.x - rotated_pos.x - 1, rotated_pos.y)
          [] flip = "Both" -> Vec(size.x - rotated_pos.x - 1, size.y - pos.y - 1)

\* transform_dir turning before it flips
transform_dir_rotate_first(self, dir, support) ==
    LET flip == IF self.flip THEN flip_type(self.support, support) ELSE "None"
        default_dir == rotation_default_dir(self.support, support)
        rotated ==
            IF default_dir = "None" THEN dir
            ELSE D8_rotated_clockwise_by(
                     dir, D4IntoD8(rotated_counterclockwise_by(self.dir, default_dir)))
    IN  CASE flip = "None" -> rotated
          [] flip = "Vertical" -> D8_flip_by(rotated, "Left")
          [] flip = "Horizontal" -> D8_flip_by(rotated, "Up")
          [] flip = "Both" -> D8_inverted(rotated)

transform_dir(self, dir, support) ==
    LET flip == IF self.flip THEN flip_type(self.support, support) ELSE "None"
        flipped ==
            CASE flip = "None" -> dir
              [] flip = "Vertical" -> D8_flip_by(dir, "Left")
              [] flip = "Horizontal" -> D8_flip_by(dir, "Up")
              [] flip = "Both" -> D8_inverted(dir)
        default_dir == rotation_default_dir(self.support, support)
    IN  IF default_dir = "None" THEN flipped
        ELSE D8_rotated_clockwise_by(
                 flipped, D4IntoD8(rotated_counterclockwise_by(self.dir, default_dir)))

\* transform_pins transforming the direction whatever support is requested
transform_pins_dir_unfiltered(self, size, ps, support) ==
    [i \in DOMAIN ps |->
        [pos |-> transform_pos(self, size, ps[i].pos, support),
         dir |-> IF ps[i].dir # "None"
                 THEN transform_dir(self, ps[i].dir, "None")
                 ELSE ps[i].dir]]

\* a PinDescription is [pos, dir] with dir in Direction8 or "None"
transform_pins(self, size, ps, support) ==
    [i \in DOMAIN ps |->
        [pos |-> transform_pos(self, size, ps[i].pos, support),
         dir |-> IF ps[i].dir # "None"
                 THEN transform_dir(self, ps[i].dir, support)
                 ELSE ps[i].dir]]

(***************************************************************************)
(* Circuit implementations: [id, support, size, pins]                      *)
(***************************************************************************)
Pin(p, d) == [pos |-> p, dir |-> d]

\* TestCircuit::size swapping the extents of a turned circuit itself
TestCircuit_size_turned(t) ==
    IF is_vertical(t.dir) THEN Vec(3, 4) ELSE Vec(4, 3)

TestCircuit_size(t) == Vec(4, 3)

QUARTERS ==
    <<<<0, 0, 0, 0, 0, 0, 0, 0>>,
      <<0, 1, 1, 1, 1, 1, 0, 0>>,
      <<0, 1, 1, 1, 1, 1, 1, 0>>,
      <<0, 1, 1, 1, 1, 1, 1, 0>>,
      <<0, 1, 1, 0, 1, 1, 0, 0>>,
      <<0, 0, 0, 0, 0, 0, 0, 0>>>>

TestCircuit_occupies_quarter(t, qpos) == QUARTERS[qpos.y + 1][qpos.x + 1] # 0

TestCircuit_describe_pins(t) ==
    <<Pin(Vec(0, 0), "UpLeft"), Pin(Vec(0, 2), "DownLeft"),
      Pin(Vec(2, 0), "Up"), Pin(Vec(2, 2), "Down"),
      Pin(Vec(3, 1), "Right")>>

\* the default of the trait
CircuitImpl_occupies_quarter(t, qpos) == TRUE

TestCircuit ==
    [id |-> "test",
     support |-> [rotation |-> [present |-> TRUE, support |-> "Automatic",
                                default_dir |-> "Right"],
                  flip |-> [present |-> TRUE, support |-> "Automatic",
                            ty |-> "Vertical"]],
     size |-> Vec(4, 3),
     pins |-> <<Pin(Vec(0, 0), "UpLeft"), Pin(Vec(0, 2), "DownLeft"),
                Pin(Vec(2, 0), "Up"), Pin(Vec(2, 2), "Down"),
                Pin(Vec(3, 1), "Right")>>]

\* Any other implementation of CircuitImpl, with automatic-style size and pins
\* (independent of the transform): one directed pin in the first cell and one
\* pin without direction in the last cell.
GenericCircuits ==
    {[id |-> "generic", support |-> s, size |-> z,
      pins |-> <<Pin(Vec(0, 0), "UpLeft"), Pin(Vec(z.x - 1, z.y - 1), "None")>>] :
        s \in CircuitTransformSupport, z \in Sizes}

Circuits == GenericCircuits \cup {TestCircuit}

\* the methods of the boxed implementation, called with the transform
imp_size(i, t) == IF i.id = "test" THEN TestCircuit_size(t) ELSE i.size

imp_describe_pins(i, t) == IF i.id = "test" THEN TestCircuit_describe_pins(t) ELSE i.pins

imp_occupies_quarter(i, t, qpos) ==
    IF i.id = "test" THEN TestCircuit_occupies_quarter(t, qpos)
    ELSE CircuitImpl_occupies_quarter(t, qpos)

(***************************************************************************)
(* CircuitBlueprint: transform, inner_size, transformed_size, pins         *)
(***************************************************************************)
\* CircuitBlueprint::new starting every type in direction Up
CircuitBlueprint_new_dir_up(i) ==
    LET t == [support |-> i.support, dir |-> "Up", flip |-> FALSE]
    IN  [transform |-> t,
         inner_size |-> imp_size(i, t),
         transformed_size |-> imp_size(i, t),
         pins |-> imp_describe_pins(i, t)]

CircuitBlueprint_new(i) ==
    LET t == [support |-> i.support,
              dir |-> IF i.support.rotation.present
                      THEN i.support.rotation.default_dir ELSE "Up",
              flip |-> FALSE]
    IN  [transform |-> t,
         inner_size |-> imp_size(i, t),
         transformed_size |-> imp_size(i, t),
         pins |-> imp_describe_pins(i, t)]

\* recalculate transforming the pins the blueprint holds
recalculate_cumulative(i, t) ==
    LET tr == [t EXCEPT !.support = i.support]
    IN  [transform |-> tr,
         inner_size |-> imp_size(i, tr),
         transformed_size |-> transform_size(tr, imp_size(i, tr), "Automatic"),
         pins |-> transform_pins(tr, imp_size(i, tr), pins, "Automatic")]

recalculate(i, t) ==
    LET tr == [t EXCEPT !.support = i.support]
    IN  [transform |-> tr,
         inner_size |-> imp_size(i, tr),
         transformed_size |-> transform_size(tr, imp_size(i, tr), "Automatic"),
         pins |-> transform_pins(tr, imp_size(i, tr), imp_describe_pins(i, tr),
                                 "Automatic")]

\* record of a direct application of a transform function to the blueprint's
\* transform and inner size; cleared by the next change of the blueprint
NoProbe ==
    [fn |-> "none", support |-> "None", pos |-> Vec(0, 0), placed |-> Vec(0, 0),
     back |-> Vec(0, 0), tsize |-> Vec(0, 0), dir |-> "Up", placed_dir |-> "Up",
     placed_next |-> Vec(0, 0), occupied |-> FALSE]

\* an RwLock nobody holds
RwFree == [writer |-> "none", readers |-> {}]

UiIdle == [pc |-> "idle", ordered |-> FALSE, writes |-> 0, toggles |-> 0]

SimthIdle == [pc |-> "idle", seen |-> FALSE]

LockIdle ==
    /\ board_lock = RwFree
    /\ sim_lock = RwFree
    /\ ui = UiIdle
    /\ simth = SimthIdle

SchedIdle ==
    /\ topo = "none"
    /\ inval = <<>>
    /\ cout = <<>>
    /\ wval = <<>>
    /\ cur = {}
    /\ nxt = {}
    /\ iter = 0
    /\ status = "none"
    /\ steps = 0
    /\ expected = "none"

\* SelectedItemId, a variant and its payload
SelectedId(kind, name, uid) == [kind |-> kind, name |-> name, uid |-> uid]

SelectedItemId_None == SelectedId("None", "", 0)

\* the "dir" and "flip" properties of the selected circuit preview and of the
\* circuits selected on the board
NoProps ==
    [preview |-> [dir |-> "Up", flip |-> FALSE],
     placed |-> [dir |-> "Up", flip |-> FALSE]]

NoFrame == [wants |-> FALSE, keys |-> {}, paste |-> FALSE, calls |-> <<>>]

EditorIdle ==
    /\ boards = {}
    /\ active = 0
    /\ selected_id = SelectedItemId_None
    /\ paste = FALSE
    /\ debug = FALSE
    /\ props = NoProps
    /\ panicked = FALSE
    /\ last = "none"
    /\ frame = NoFrame

BoardIdle ==
    /\ ordered_queue = FALSE
    /\ LockIdle
    /\ SchedIdle
    /\ EditorIdle

GateIdle ==
    /\ gate = "None"
    /\ inputs = <<>>
    /\ parity = FALSE
    /\ idx = 0
    /\ state = FALSE
    /\ state0 = FALSE
    /\ out = FALSE
    /\ fin = FALSE
    /\ pc = "idle"

Init ==
    /\ imp \in Circuits
    /\ transform = CircuitBlueprint_new(imp).transform
    /\ inner_size = CircuitBlueprint_new(imp).inner_size
    /\ transformed_size = CircuitBlueprint_new(imp).transformed_size
    /\ pins = CircuitBlueprint_new(imp).pins
    /\ probe = NoProbe
    /\ GateIdle
    /\ BoardIdle

SetBlueprint(t) ==
    /\ LET r == recalculate(imp, t)
       IN  /\ transform' = r.transform
           /\ inner_size' = r.inner_size
           /\ transformed_size' = r.transformed_size
           /\ pins' = r.pins
    /\ probe' = NoProbe
    /\ UNCHANGED <<imp, gateVars, boardVars>>

\* key R: the "dir" property is turned clockwise, the blueprint recalculated
Rotate == SetBlueprint([transform EXCEPT !.dir = rotate_clockwise(@)])

\* key F: the "flip" property is inverted, the blueprint recalculated
Flip == SetBlueprint([transform EXCEPT !.flip = ~@])

Recalculate == SetBlueprint(transform)

ApplyTransformSize(support) ==
    /\ probe.fn = "none"
    /\ probe' = [NoProbe EXCEPT !.fn = "transform_size", !.support = support,
                                !.tsize = transform_size(transform, inner_size, support)]
    /\ UNCHANGED <<imp, transform, inner_size, transformed_size, pins, gateVars, boardVars>>

ApplyTransformPos(p, support) ==
    /\ probe.fn = "none"
    /\ p \in Cells(inner_size)
    /\ LET placed == transform_pos(transform, inner_size, p, support)
       IN  probe' = [NoProbe EXCEPT
                        !.fn = "transform_pos", !.support = support, !.pos = p,
                        !.placed = placed,
                        !.back = backtransform_pos(transform, inner_size, placed, support),
                        !.tsize = transform_size(transform, inner_size, support)]
    /\ UNCHANGED <<imp, transform, inner_size, transformed_size, pins, gateVars, boardVars>>

ApplyTransformDir(d, support) ==
    /\ probe.fn = "none"
    /\ probe' = [NoProbe EXCEPT
                    !.fn = "transform_dir", !.support = support, !.dir = d,
                    !.placed_dir = transform_dir(transform, d, support),
                    !.tsize = transform_size(transform, inner_size, support)]
    /\ UNCHANGED <<imp, transform, inner_size, transformed_size, pins, gateVars, boardVars>>

\* a pin position, the cell next to it in direction d, and d, all transformed
ApplyTransformNeighbour(p, d, support) ==
    /\ probe.fn = "none"
    /\ p \in Cells(inner_size)
    /\ VecAdd(p, D8_into_dir_isize(d)) \in Cells(inner_size)
    /\ probe' = [NoProbe EXCEPT
                    !.fn = "neighbour", !.support = support, !.pos = p, !.dir = d,
                    !.placed = transform_pos(transform, inner_size, p, support),
                    !.placed_next = transform_pos(transform, inner_size,
                                                  VecAdd(p, D8_into_dir_isize(d)), support),
                    !.placed_dir = transform_dir(transform, d, support),
                    !.tsize = transform_size(transform, inner_size, support)]
    /\ UNCHANGED <<imp, transform, inner_size, transformed_size, pins, gateVars, boardVars>>

QuarterCells(size) == Cells(Vec(2 * size.x, 2 * size.y))

ApplyOccupiesQuarter(qpos) ==
    /\ probe.fn = "none"
    /\ qpos \in QuarterCells(inner_size)
    /\ probe' = [NoProbe EXCEPT
                    !.fn = "occupies_quarter", !.pos = qpos,
                    !.occupied = imp_occupies_quarter(imp, transform, qpos)]
    /\ UNCHANGED <<imp, transform, inner_size, transformed_size, pins, gateVars, boardVars>>

Next ==
    \/ Rotate
    \/ Flip
    \/ Recalculate
    \/ \E s \in SupportFilter : ApplyTransformSize(s)
    \/ \E s \in SupportFilter : \E p \in Cells(inner_size) : ApplyTransformPos(p, s)
    \/ \E s \in SupportFilter : \E d \in Direction8 : ApplyTransformDir(d, s)
    \/ \E q \in QuarterCells(inner_size) : ApplyOccupiesQuarter(q)

Spec == Init /\ [][Next]_vars

\* the blueprint with calls of transform_pos and transform_dir on neighbours
NextNeighbour ==
    \/ Rotate
    \/ Flip
    \/ Recalculate
    \/ \E s \in SupportFilter : \E p \in Cells(inner_size) : \E d \in Direction8 :
            ApplyTransformNeighbour(p, d, s)

SpecNeighbour == Init /\ [][NextNeighbour]_vars

(***************************************************************************)
(* Gates.  fold(state, input) gives the new state with the GateOutput.     *)
(***************************************************************************)
GateOutput(s, o, f) == [state |-> s, out |-> o, fin |-> f]

Or_init_state == FALSE

\* Or::fold that never reports settled
Or_fold_never_settles(s, input) ==
    IF input THEN GateOutput(s, TRUE, FALSE) ELSE GateOutput(s, FALSE, FALSE)

Or_fold(s, input) ==
    IF input THEN GateOutput(s, TRUE, TRUE) ELSE GateOutput(s, FALSE, FALSE)

\* Nor::init_state giving the value of NOR over no input
Nor_init_state_true == TRUE

Nor_init_state == FALSE

\* Nor::fold that never reports settled
Nor_fold_never_settles(s, input) ==
    IF ~input THEN GateOutput(s, TRUE, FALSE) ELSE GateOutput(s, FALSE, FALSE)

Nor_fold(s, input) ==
    IF ~input THEN GateOutput(s, TRUE, FALSE) ELSE GateOutput(s, FALSE, TRUE)

Nand_init_state == FALSE

Nand_fold(s, input) ==
    IF ~input THEN GateOutput(s, TRUE, FALSE) ELSE GateOutput(s, FALSE, TRUE)

Xor_init_state == FALSE

\* Xor::fold giving the state from before the input as output
Xor_fold_stale_out(s, input) ==
    LET st == IF input THEN ~s ELSE s
    IN  GateOutput(st, s, FALSE)

\* Xor::fold taking the input as the new state
Xor_fold_overwrites(s, input) == GateOutput(input, input, FALSE)

Xor_fold(s, input) ==
    LET st == IF input THEN ~s ELSE s
    IN  GateOutput(st, st, FALSE)

\* Xnor::process with the parity test inverted
Xnor_process_odd(ins, par) ==
    LET count == Cardinality({i \in DOMAIN ins : ins[i]})
    IN  IF par THEN count % 2 # 0 ELSE count # 1

\* Xnor::process without the parity mode
Xnor_process_count_only(ins, par) ==
    Cardinality({i \in DOMAIN ins : ins[i]}) # 1

Xnor_process(ins, par) ==
    LET count == Cardinality({i \in DOMAIN ins : ins[i]})
    IN  IF par THEN count % 2 # 1 ELSE count # 1

FoldGates == {"Or", "Nor", "Nand", "Xor"}

init_state(g) ==
    CASE g = "Or" -> Or_init_state
      [] g = "Nor" -> Nor_init_state
      [] g = "Nand" -> Nand_init_state
      [] g = "Xor" -> Xor_init_state

fold(g, s, input) ==
    CASE g = "Or" -> Or_fold(s, input)
      [] g = "Nor" -> Nor_fold(s, input)
      [] g = "Nand" -> Nand_fold(s, input)
      [] g = "Xor" -> Xor_fold(s, input)

BoolSeqs == UNION {[1..n -> BOOLEAN] : n \in 0..MaxInputs}

\* Evaluation of a gate over its inputs: fold from init_state in order, stop at
\* the first settled step, the output is that of the last step folded.
RECURSIVE EvaluateFrom(_, _, _, _)
EvaluateFrom(g, ins, i, acc) ==
    IF acc.fin \/ i > Len(ins) THEN acc
    ELSE EvaluateFrom(g, ins, i + 1, fold(g, acc.state, ins[i]))

Evaluate(g, ins) ==
    EvaluateFrom(g, ins, 1, GateOutput(init_state(g), init_state(g), FALSE))

GeomIdle ==
    /\ imp = TestCircuit
    /\ transform = CircuitBlueprint_new(TestCircuit).transform
    /\ inner_size = CircuitBlueprint_new(TestCircuit).inner_size
    /\ transformed_size = CircuitBlueprint_new(TestCircuit).transformed_size
    /\ pins = CircuitBlueprint_new(TestCircuit).pins
    /\ probe = NoProbe

InitGates ==
    /\ GeomIdle
    /\ BoardIdle
    /\ gate \in FoldGates \cup {"Xnor"}
    /\ inputs \in BoolSeqs
    /\ parity \in (IF gate = "Xnor" THEN BOOLEAN ELSE {FALSE})
    /\ idx = 0
    /\ state = (IF gate = "Xnor" THEN FALSE ELSE init_state(gate))
    /\ state0 = state
    /\ out = (IF gate = "Xnor" THEN FALSE ELSE init_state(gate))
    /\ fin = FALSE
    /\ pc = "folding"

FoldStep(g) ==
    /\ pc = "folding"
    /\ gate = g
    /\ ~fin
    /\ idx < Len(inputs)
    /\ LET r == fold(g, state, inputs[idx + 1])
       IN  /\ state' = r.state
           /\ out' = r.out
           /\ fin' = r.fin
    /\ idx' = idx + 1
    /\ UNCHANGED <<gate, inputs, parity, state0, pc, geomVars, boardVars>>

FoldOr == FoldStep("Or")

FoldNor == FoldStep("Nor")

FoldNand == FoldStep("Nand")

FoldXor == FoldStep("Xor")

Finish ==
    /\ pc = "folding"
    /\ gate \in FoldGates
    /\ fin \/ idx = Len(inputs)
    /\ pc' = "done"
    /\ UNCHANGED <<gate, inputs, parity, idx, state, state0, out, fin, geomVars, boardVars>>

Process ==
    /\ pc = "folding"
    /\ gate = "Xnor"
    /\ out' = Xnor_process(inputs, parity)
    /\ idx' = Len(inputs)
    /\ pc' = "done"
    /\ UNCHANGED <<gate, inputs, parity, state, state0, fin, geomVars, boardVars>>

NextGates ==
    \/ FoldOr
    \/ FoldNor
    \/ FoldNand
    \/ FoldXor
    \/ Finish
    \/ Process

SpecGates == InitGates /\ [][NextGates]_vars

\* an evaluation pass that starts from the state the gate was left with: the
\* XOR state bit is either value, the output so far is the state
InitGatesCarry ==
    /\ GeomIdle
    /\ BoardIdle
    /\ gate \in FoldGates \cup {"Xnor"}
    /\ inputs \in BoolSeqs
    /\ parity \in (IF gate = "Xnor" THEN BOOLEAN ELSE {FALSE})
    /\ idx = 0
    /\ state \in (IF gate = "Xor" THEN BOOLEAN
                  ELSE IF gate = "Xnor" THEN {FALSE} ELSE {init_state(gate)})
    /\ state0 = state
    /\ out = state
    /\ fin = FALSE
    /\ pc = "folding"

SpecGatesCarry == InitGatesCarry /\ [][NextGates]_vars

(***************************************************************************)
(* Key Q: the ordered-queue flag of the board is inverted under the        *)
(* simulation lock and the board lock.  The editor thread takes one step   *)
(* per lock operation of the handler; the simulation thread takes the      *)
(* locks shared while it works on the board.                               *)
(***************************************************************************)
can_read(l) == l.writer = "none"

can_write(l) == l.writer = "none" /\ l.readers = {}

read_lock(l, t) == [l EXCEPT !.readers = @ \cup {t}]

read_unlock(l, t) == [l EXCEPT !.readers = @ \ {t}]

write_lock(l, t) == [l EXCEPT !.writer = t]

write_unlock(l) == [l EXCEPT !.writer = "none"]

holds(l, t) == l.writer = t \/ t \in l.readers

SchedUnchanged == UNCHANGED <<geomVars, gateVars, schedVars, editorVars>>

InitToggle ==
    /\ GeomIdle
    /\ GateIdle
    /\ SchedIdle
    /\ EditorIdle
    /\ LockIdle
    /\ ordered_queue \in BOOLEAN

\* self.board.board.read()
Q_board_read ==
    /\ ui.pc = "idle"
    /\ ui.toggles < MaxToggles
    /\ can_read(board_lock)
    /\ board_lock' = read_lock(board_lock, "ui")
    /\ ui' = [ui EXCEPT !.pc = "clone"]
    /\ UNCHANGED <<ordered_queue, sim_lock, simth>>
    /\ SchedUnchanged

\* the read guard kept in a variable of the handler
Q_clone_sim_lock_guard_kept ==
    /\ ui.pc = "clone"
    /\ ui' = [ui EXCEPT !.pc = "sim_write"]
    /\ UNCHANGED <<ordered_queue, board_lock, sim_lock, simth>>
    /\ SchedUnchanged

\* .sim_lock.clone(); the read guard is a temporary of the statement
Q_clone_sim_lock ==
    /\ ui.pc = "clone"
    /\ board_lock' = read_unlock(board_lock, "ui")
    /\ ui' = [ui EXCEPT !.pc = "sim_write"]
    /\ UNCHANGED <<ordered_queue, sim_lock, simth>>
    /\ SchedUnchanged

\* sim_lock.write()
Q_sim_lock_write ==
    /\ ui.pc = "sim_write"
    /\ can_write(sim_lock)
    /\ sim_lock' = write_lock(sim_lock, "ui")
    /\ ui' = [ui EXCEPT !.pc = "board_write"]
    /\ UNCHANGED <<ordered_queue, board_lock, simth>>
    /\ SchedUnchanged

\* self.board.board.write()
Q_board_write ==
    /\ ui.pc = "board_write"
    /\ can_write(board_lock)
    /\ board_lock' = write_lock(board_lock, "ui")
    /\ ui' = [ui EXCEPT !.pc = "is_ordered"]
    /\ UNCHANGED <<ordered_queue, sim_lock, simth>>
    /\ SchedUnchanged

\* board.is_ordered_queue()
Q_is_ordered_queue ==
    /\ ui.pc = "is_ordered"
    /\ ui' = [ui EXCEPT !.pc = "set_ordered", !.ordered = ordered_queue]
    /\ UNCHANGED <<ordered_queue, board_lock, sim_lock, simth>>
    /\ SchedUnchanged

\* board.set_ordered_queue(!ordered, false)
Q_set_ordered_queue ==
    /\ ui.pc = "set_ordered"
    /\ ordered_queue' = ~ui.ordered
    /\ ui' = [ui EXCEPT !.pc = "drop", !.writes = @ + 1]
    /\ UNCHANGED <<board_lock, sim_lock, simth>>
    /\ SchedUnchanged

\* drop(sim_lock)
Q_drop_sim_lock ==
    /\ ui.pc = "drop"
    /\ sim_lock' = write_unlock(sim_lock)
    /\ ui' = [ui EXCEPT !.pc = "end"]
    /\ UNCHANGED <<ordered_queue, board_lock, simth>>
    /\ SchedUnchanged

\* the end of the block drops the board write guard
Q_end ==
    /\ ui.pc = "end"
    /\ board_lock' = write_unlock(board_lock)
    /\ ui' = [ui EXCEPT !.pc = "idle", !.toggles = @ + 1]
    /\ UNCHANGED <<ordered_queue, sim_lock, simth>>
    /\ SchedUnchanged

\* the simulation thread: the simulation lock shared, then the board shared
Sim_lock_read ==
    /\ simth.pc = "idle"
    /\ can_read(sim_lock)
    /\ sim_lock' = read_lock(sim_lock, "sim")
    /\ simth' = [simth EXCEPT !.pc = "locked"]
    /\ UNCHANGED <<ordered_queue, board_lock, ui>>
    /\ SchedUnchanged

Sim_board_read ==
    /\ simth.pc = "locked"
    /\ can_read(board_lock)
    /\ board_lock' = read_lock(board_lock, "sim")
    /\ simth' = [simth EXCEPT !.pc = "reading", !.seen = ordered_queue]
    /\ UNCHANGED <<ordered_queue, sim_lock, ui>>
    /\ SchedUnchanged

Sim_unlock ==
    /\ simth.pc = "reading"
    /\ board_lock' = read_unlock(board_lock, "sim")
    /\ sim_lock' = read_unlock(sim_lock, "sim")
    /\ simth' = [simth EXCEPT !.pc = "idle"]
    /\ UNCHANGED <<ordered_queue, ui>>
    /\ SchedUnchanged

NextToggle ==
    \/ Q_board_read
    \/ Q_clone_sim_lock
    \/ Q_sim_lock_write
    \/ Q_board_write
    \/ Q_is_ordered_queue
    \/ Q_set_ordered_queue
    \/ Q_drop_sim_lock
    \/ Q_end
    \/ Sim_lock_read
    \/ Sim_board_read
    \/ Sim_unlock

SpecToggle == InitToggle /\ [][NextToggle]_vars

(***************************************************************************)
(* The board under simulation: circuits drive wires, wires feed circuits.  *)
(* A propagation wave drains the dirty set pass by pass; what a step       *)
(* dirties waits for the next pass.  Keys Q and F4 of the editor act on    *)
(* the board between two steps of the wave.                                *)
(***************************************************************************)
\* the passes a wave may take before the board is reported unstable
IterationCap == 8

Circuit(g, i, o) == [gate |-> g, ins |-> i, out |-> o]

Topologies == {"chain", "notloop", "hold", "latch"}

\* input pin 0 is attached to no wire; NOR of one input is the NOT gate
circuits_of(t) ==
    CASE t = "chain" -> <<Circuit("In", <<>>, 1), Circuit("Nor", <<1>>, 2),
                          Circuit("Or", <<2, 0>>, 3)>>
      [] t = "notloop" -> <<Circuit("Nor", <<1>>, 1)>>
      [] t = "hold" -> <<Circuit("In", <<>>, 1), Circuit("In", <<>>, 1),
                         Circuit("Or", <<1, 2>>, 2)>>
      [] t = "latch" -> <<Circuit("In", <<>>, 1), Circuit("In", <<>>, 2),
                          Circuit("Nor", <<2, 4>>, 3), Circuit("Nor", <<1, 3>>, 4)>>
      [] OTHER -> <<>>

wires_of(t) == {circuits_of(t)[k].out : k \in DOMAIN circuits_of(t)}

Items(t) ==
    {<<"c", k>> : k \in DOMAIN circuits_of(t)} \cup {<<"w", w>> : w \in wires_of(t)}

Buttons(t) == {k \in DOMAIN circuits_of(t) : circuits_of(t)[k].gate = "In"}

Board ==
    [inval |-> inval, cout |-> cout, wval |-> wval, cur |-> cur, nxt |-> nxt,
     iter |-> iter, status |-> status, steps |-> steps]

\* power-on defaults, nothing dirty
new_board(t) ==
    [inval |-> [k \in DOMAIN circuits_of(t) |-> FALSE],
     cout |-> [k \in DOMAIN circuits_of(t) |-> FALSE],
     wval |-> [w \in wires_of(t) |-> FALSE],
     cur |-> {}, nxt |-> {}, iter |-> 0, status |-> "settled", steps |-> 0]

\* reset that keeps what the buttons hold
reset_keeps_buttons(t, b) ==
    [b EXCEPT !.cout = [k \in DOMAIN b.cout |-> FALSE],
              !.wval = [w \in DOMAIN b.wval |-> FALSE],
              !.cur = {}, !.nxt = {}, !.iter = 0, !.status = "settled", !.steps = 0]

\* reset(): wire and circuit state back to the power-on defaults, the wave
\* in progress abandoned
reset(t, b) ==
    [b EXCEPT !.inval = [k \in DOMAIN b.inval |-> FALSE],
              !.cout = [k \in DOMAIN b.cout |-> FALSE],
              !.wval = [w \in DOMAIN b.wval |-> FALSE],
              !.cur = {}, !.nxt = {}, !.iter = 0, !.status = "settled", !.steps = 0]

\* update_everything(): a wave over every circuit and wire
update_everything(t, b) ==
    [b EXCEPT !.cur = Items(t), !.nxt = {}, !.iter = 0, !.status = "running",
              !.steps = 0]

pin_value(b, w) == IF w = 0 THEN FALSE ELSE b.wval[w]

circuit_output(t, b, k) ==
    LET c == circuits_of(t)[k]
    IN  IF c.gate = "In" THEN b.inval[k]
        ELSE Evaluate(c.gate, [n \in DOMAIN c.ins |-> pin_value(b, c.ins[n])]).out

\* a wire carries the OR of the outputs that drive it
wire_value(t, b, w) ==
    \E k \in DOMAIN circuits_of(t) : circuits_of(t)[k].out = w /\ b.cout[k]

readers_of(t, w) ==
    {<<"c", k>> : k \in {j \in DOMAIN circuits_of(t) :
                            \E n \in DOMAIN circuits_of(t)[j].ins :
                                circuits_of(t)[j].ins[n] = w}}

process_circuit(t, b, k) ==
    LET o == circuit_output(t, b, k)
    IN  [b EXCEPT !.cout[k] = o,
                  !.nxt = IF o # b.cout[k]
                          THEN @ \cup {<<"w", circuits_of(t)[k].out>>} ELSE @]

process_wire(t, b, w) ==
    LET v == wire_value(t, b, w)
    IN  [b EXCEPT !.wval[w] = v,
                  !.nxt = IF v # b.wval[w] THEN @ \cup readers_of(t, w) ELSE @]

\* one propagation step: the item leaves the queue and is recomputed
process(t, b, it) ==
    LET d == [b EXCEPT !.cur = @ \ {it}, !.steps = @ + 1]
    IN  IF it[1] = "c" THEN process_circuit(t, d, it[2]) ELSE process_wire(t, d, it[2])

\* the end of a pass that ends the wave at the cap without a report
end_pass_silent_at_cap(b) ==
    IF b.nxt = {} \/ b.iter + 1 >= IterationCap
    THEN [b EXCEPT !.nxt = {}, !.status = "settled"]
    ELSE [b EXCEPT !.cur = b.nxt, !.nxt = {}, !.iter = @ + 1]

\* the end of a pass: no new dirt ends the wave, the cap ends it as unstable
\* with the dirt kept, otherwise the new dirt is the next pass
end_pass(b) ==
    IF b.nxt = {} THEN [b EXCEPT !.status = "settled"]
    ELSE IF b.iter + 1 >= IterationCap
    THEN [b EXCEPT !.cur = b.nxt, !.nxt = {}, !.iter = @ + 1, !.status = "unstable"]
    ELSE [b EXCEPT !.cur = b.nxt, !.nxt = {}, !.iter = @ + 1]

\* ordered queue: circuits and wires by id, the circuit before the wire
rank(it) == 2 * it[2] + (IF it[1] = "w" THEN 1 ELSE 0)

first_ordered(q) == CHOOSE it \in q : \A o \in q : rank(it) <= rank(o)

\* the wave run to its end with the queue ordered throughout
RECURSIVE RunOrdered(_, _)
RunOrdered(t, b) ==
    IF b.status # "running" THEN b
    ELSE IF b.cur = {} THEN RunOrdered(t, end_pass(b))
    ELSE RunOrdered(t, process(t, b, first_ordered(b.cur)))

\* what the wave that starts on board b was started by ("new", "reset" or
\* "input"), whether key Q was pressed during it, and where it ends with the
\* queue ordered throughout
Expect(t, b, origin) ==
    LET r == RunOrdered(t, b)
    IN  [status |-> r.status, cout |-> r.cout, wval |-> r.wval,
         origin |-> origin, toggled |-> FALSE]

SetBoard(b) ==
    /\ inval' = b.inval
    /\ cout' = b.cout
    /\ wval' = b.wval
    /\ cur' = b.cur
    /\ nxt' = b.nxt
    /\ iter' = b.iter
    /\ status' = b.status
    /\ steps' = b.steps

FreshBoard(t) == update_everything(t, new_board(t))

InitSim ==
    /\ GeomIdle
    /\ GateIdle
    /\ LockIdle
    /\ EditorIdle
    /\ ordered_queue \in BOOLEAN
    /\ topo \in Topologies
    /\ inval = FreshBoard(topo).inval
    /\ cout = FreshBoard(topo).cout
    /\ wval = FreshBoard(topo).wval
    /\ cur = FreshBoard(topo).cur
    /\ nxt = FreshBoard(topo).nxt
    /\ iter = FreshBoard(topo).iter
    /\ status = FreshBoard(topo).status
    /\ steps = FreshBoard(topo).steps
    /\ expected = Expect(topo, FreshBoard(topo), "new")

SimUnchanged == UNCHANGED <<geomVars, gateVars, lockVars, topo, editorVars>>

\* the simulation thread recomputes one dirty item: the first by id with the
\* queue ordered, any with it unordered
ProcessItem(it) ==
    /\ status = "running"
    /\ it \in cur
    /\ ordered_queue => it = first_ordered(cur)
    /\ SetBoard(process(topo, Board, it))
    /\ UNCHANGED <<ordered_queue, expected>>
    /\ SimUnchanged

EndPass ==
    /\ status = "running"
    /\ cur = {}
    /\ SetBoard(end_pass(Board))
    /\ UNCHANGED <<ordered_queue, expected>>
    /\ SimUnchanged

\* a button is pressed or released between two waves
SetInput(k) ==
    /\ status # "running"
    /\ k \in Buttons(topo)
    /\ LET b == [Board EXCEPT !.inval[k] = ~@, !.cur = @ \cup {<<"c", k>>},
                              !.iter = 0, !.status = "running", !.steps = 0]
       IN  /\ SetBoard(b)
           /\ expected' = Expect(topo, b, "input")
    /\ UNCHANGED ordered_queue
    /\ SimUnchanged

\* key Q with what is waiting in the queue thrown away
KeyQ_queue_lost ==
    /\ ordered_queue' = ~ordered_queue
    /\ SetBoard([Board EXCEPT !.cur = {}, !.nxt = {}])
    /\ expected' = [expected EXCEPT !.toggled = @ \/ status = "running"]
    /\ SimUnchanged

\* key Q: the flag is inverted, the queue keeps its items
KeyQ ==
    /\ ordered_queue' = ~ordered_queue
    /\ expected' = [expected EXCEPT !.toggled = @ \/ status = "running"]
    /\ UNCHANGED <<inval, cout, wval, cur, nxt, iter, status, steps>>
    /\ SimUnchanged

\* key F4 without the reset
KeyF4_no_reset ==
    /\ LET b == update_everything(topo, Board)
       IN  /\ SetBoard(b)
           /\ expected' = Expect(topo, b, "reset")
    /\ UNCHANGED ordered_queue
    /\ SimUnchanged

\* key F4: state.reset(); state.update_everything();
KeyF4 ==
    /\ LET b == update_everything(topo, reset(topo, Board))
       IN  /\ SetBoard(b)
           /\ expected' = Expect(topo, b, "reset")
    /\ UNCHANGED ordered_queue
    /\ SimUnchanged

NextSim ==
    \/ \E it \in cur : ProcessItem(it)
    \/ EndPass
    \/ \E k \in Buttons(topo) : SetInput(k)
    \/ KeyQ
    \/ KeyF4

SpecSim == InitSim /\ [][NextSim]_vars

(***************************************************************************)
(* The board editor (ui/views.rs).  draw_background and draw_ui each run  *)
(* whole for one frame on the input of that frame.  Calls into objects    *)
(* that live outside the editor (ActiveCircuitBoard, CircuitBoard, the    *)
(* simulation State) are recorded in frame.calls.                         *)
(***************************************************************************)
Uids == 1..MaxBoards

Keys == {"F9", "F8", "F7", "F4", "R", "F", "Q"}

CircuitNames == {"or"}

SelectedItemId_Wires == SelectedId("Wires", "", 0)

SelectedItemId_Selection == SelectedId("Selection", "", 0)

SelectedItemId_Paste == SelectedId("Paste", "", 0)

SelectedItemId_Circuit(name) == SelectedId("Circuit", name, 0)

SelectedItemId_Board(uid) == SelectedId("Board", "", uid)

SelectedItemIds ==
    {SelectedItemId_None, SelectedItemId_Wires, SelectedItemId_Selection,
     SelectedItemId_Paste}
        \cup {SelectedItemId_Circuit(n) : n \in CircuitNames}
        \cup {SelectedItemId_Board(u) : u \in Uids}

\* the variant of SelectedItem that selected_item() returns
selected_item(sel, held, bs) ==
    CASE sel.kind = "None" -> "None"
      [] sel.kind = "Paste" -> IF held THEN "Paste" ELSE "None"
      [] sel.kind = "Selection" -> "Selection"
      [] sel.kind = "Wires" -> "Wire"
      [] sel.kind = "Circuit" -> IF sel.name \in CircuitNames THEN "Circuit" ELSE "None"
      [] sel.kind = "Board" -> IF sel.uid \in bs THEN "Circuit" ELSE "None"

\* a valid paste event selects the pasted data
paste_event(pasted, sel, held) ==
    IF pasted
    THEN [selected_id |-> SelectedItemId_Paste, paste |-> TRUE]
    ELSE [selected_id |-> sel, paste |-> held]

\* the closures keys R and F pass to change_selected_props
key_closure(id, v) == IF id = "dir" THEN rotate_clockwise(v) ELSE ~v

\* writes property id of the selected preview, or else of the circuits
\* selected on the board
change_selected_props(item, p, id) ==
    IF item = "Circuit"
    THEN [p EXCEPT !.preview[id] = key_closure(id, @)]
    ELSE [p EXCEPT !.placed[id] = key_closure(id, @)]

\* the key block of draw_background on editor state st
key_shortcuts_unguarded(wants, keys, item, st) ==
    LET s1 == IF "F9" \in keys
              THEN [st EXCEPT !.debug = ~@]
              ELSE IF "F8" \in keys
              THEN [st EXCEPT !.calls = Append(@, "ActiveCircuitBoard::new")]
              ELSE IF "F7" \in keys
              THEN [st EXCEPT !.calls = Append(@, "regenerate_temp_design")]
              ELSE IF "F4" \in keys
              THEN [st EXCEPT !.calls = Append(Append(@, "reset"), "update_everything")]
              ELSE st
        s2 == IF "R" \in keys
              THEN [s1 EXCEPT !.props = change_selected_props(item, @, "dir")]
              ELSE s1
        s3 == IF "F" \in keys
              THEN [s2 EXCEPT !.props = change_selected_props(item, @, "flip")]
              ELSE s2
    IN  IF "Q" \in keys
        THEN [s3 EXCEPT !.ordered_queue = ~@]
        ELSE s3

key_shortcuts(wants, keys, item, st) ==
    IF ~wants
    THEN LET s1 == IF "F9" \in keys
                   THEN [st EXCEPT !.debug = ~@]
                   ELSE IF "F8" \in keys
                   THEN [st EXCEPT !.calls = Append(@, "ActiveCircuitBoard::new")]
                   ELSE IF "F7" \in keys
                   THEN [st EXCEPT !.calls = Append(@, "regenerate_temp_design")]
                   ELSE IF "F4" \in keys
                   THEN [st EXCEPT !.calls = Append(Append(@, "reset"), "update_everything")]
                   ELSE st
             s2 == IF "R" \in keys
                   THEN [s1 EXCEPT !.props = change_selected_props(item, @, "dir")]
                   ELSE s1
             s3 == IF "F" \in keys
                   THEN [s2 EXCEPT !.props = change_selected_props(item, @, "flip")]
                   ELSE s2
         IN  IF "Q" \in keys
             THEN [s3 EXCEPT !.ordered_queue = ~@]
             ELSE s3
    ELSE st

\* one frame of draw_background on the input inp
draw_background(inp) ==
    /\ ~panicked
    /\ LET pe == paste_event(inp.paste, selected_id, paste)
           item == selected_item(pe.selected_id, pe.paste, boards)
           ks == key_shortcuts(inp.wants, inp.keys, item,
                               [debug |-> debug, props |-> props,
                                ordered_queue |-> ordered_queue, calls |-> <<>>])
       IN  /\ selected_id' = pe.selected_id
           /\ paste' = pe.paste
           /\ debug' = ks.debug
           /\ props' = ks.props
           /\ ordered_queue' = ks.ordered_queue
           /\ frame' = [wants |-> inp.wants, keys |-> inp.keys,
                        paste |-> inp.paste, calls |-> ks.calls]
    /\ last' = "draw_background"
    /\ UNCHANGED <<boards, active, panicked>>
    /\ UNCHANGED <<geomVars, gateVars, lockVars, schedVars>>

\* Delete is left out of the context menus
no_delete_when_empty(bs) == Cardinality(bs) < 1

no_delete(bs) == Cardinality(bs) <= 1

\* a click on an entry of the built-in component list
builtin_click(name, sel) ==
    IF name = "none"
    THEN sel
    ELSE IF sel = SelectedItemId_Circuit(name)
    THEN SelectedItemId_None
    ELSE SelectedItemId_Circuit(name)

\* a primary click on the entry of board uid
board_click(uid, sel) ==
    IF uid # 0 /\ sel # SelectedItemId_Board(uid)
    THEN SelectedItemId_Board(uid)
    ELSE sel

\* a double click on the entry of board uid
board_double_click(uid, double, act) ==
    IF uid # 0 /\ double /\ act # uid THEN uid ELSE act

\* the values queued_deletion can hold after the loop over the boards: None
\* (0) or the last board whose Delete was clicked
queued_deletion(bs, deletes) ==
    IF no_delete(bs) \/ deletes = {} THEN {0} ELSE deletes

\* the "Add board" button: uid is the id of the new board, 0 when not clicked
add_board(uid, bs, act) ==
    IF uid = 0
    THEN [boards |-> bs, active |-> act]
    ELSE [boards |-> bs \cup {uid}, active |-> uid]

\* the queued deletion: first is the board boards.values().next() yields
apply_deletion(uid, bs, act, first) ==
    IF uid = 0
    THEN [boards |-> bs, active |-> act, panicked |-> FALSE]
    ELSE IF act # uid
    THEN [boards |-> bs \ {uid}, active |-> act, panicked |-> FALSE]
    ELSE IF bs \ {uid} = {}
    THEN [boards |-> bs \ {uid}, active |-> act, panicked |-> TRUE]
    ELSE [boards |-> bs \ {uid}, active |-> first, panicked |-> FALSE]

\* the Inventory widget: a click on the item with this id
Inventory_select(item, sel) ==
    IF item = SelectedItemId_None
    THEN sel
    ELSE IF sel = item THEN SelectedItemId_None ELSE item

InventoryItems ==
    {SelectedItemId_Selection, SelectedItemId_Wires}
        \cup {SelectedItemId_Circuit(n) : n \in CircuitNames}

key_escape(pressed, sel) == IF pressed THEN SelectedItemId_None ELSE sel

\* the match on (selected_id == Paste, paste.is_some()) that ends the frame
sync_paste_keeps_preview(sel, held) ==
    IF sel = SelectedItemId_Paste /\ ~held
    THEN [selected_id |-> SelectedItemId_None, paste |-> held]
    ELSE [selected_id |-> sel, paste |-> held]

sync_paste(sel, held) ==
    IF sel = SelectedItemId_Paste /\ held
    THEN [selected_id |-> sel, paste |-> held]
    ELSE IF sel = SelectedItemId_Paste /\ ~held
    THEN [selected_id |-> SelectedItemId_None, paste |-> held]
    ELSE IF held
    THEN [selected_id |-> sel, paste |-> FALSE]
    ELSE [selected_id |-> sel, paste |-> held]

\* one frame of draw_ui on the input inp
draw_ui(inp) ==
    /\ ~panicked
    /\ inp.click \in boards \cup {0}
    /\ inp.deletes \subseteq boards
    /\ inp.add => boards # Uids
    /\ \E queued \in queued_deletion(boards, inp.deletes),
          uid \in (IF inp.add THEN Uids \ boards ELSE {0}) :
            LET s1 == builtin_click(inp.builtin, selected_id)
                s2 == board_click(inp.click, s1)
                a1 == board_double_click(inp.click, inp.double, active)
                ab == add_board(uid, boards, a1)
            IN  \E first \in (IF ab.boards \ {queued} = {} THEN {0} ELSE ab.boards \ {queued}) :
                    LET del == apply_deletion(queued, ab.boards, ab.active, first)
                        s3 == key_escape(inp.escape, s2)
                        s4 == Inventory_select(inp.inventory, s3)
                        sp == sync_paste(s4, paste)
                    IN  /\ boards' = del.boards
                        /\ active' = del.active
                        /\ panicked' = del.panicked
                        /\ selected_id' = sp.selected_id
                        /\ paste' = sp.paste
    /\ last' = "draw_ui"
    /\ UNCHANGED <<debug, props, frame, ordered_queue>>
    /\ UNCHANGED <<geomVars, gateVars, lockVars, schedVars>>

\* the fields CircuitBoardEditor::new sets
CircuitBoardEditor_new ==
    /\ selected_id = SelectedItemId_None
    /\ paste = FALSE
    /\ debug = FALSE

KeySets == {k \in SUBSET Keys : Cardinality(k) <= MaxKeys}

\* frames in which keys are pressed and nothing is pasted
KeyInputs ==
    [wants : BOOLEAN, keys : KeySets, paste : {FALSE}]

\* frames in which data may be pasted and no key is pressed
PasteInputs ==
    [wants : BOOLEAN, keys : {{}}, paste : BOOLEAN]

\* a frame of draw_ui without a click or a key
UiNoInput ==
    [builtin |-> "none", click |-> 0, double |-> FALSE, deletes |-> {},
     add |-> FALSE, escape |-> FALSE, inventory |-> SelectedItemId_None]

UiInputs ==
    [builtin : {"none"} \cup CircuitNames, click : Uids \cup {0}, double : BOOLEAN,
     deletes : SUBSET Uids, add : BOOLEAN, escape : BOOLEAN,
     inventory : {SelectedItemId_None, SelectedItemId_Selection}]

\* the editor opens on one board of a simulation that holds it
InitBoards ==
    /\ GeomIdle
    /\ GateIdle
    /\ LockIdle
    /\ SchedIdle
    /\ ordered_queue = FALSE
    /\ boards = {1}
    /\ active = 1
    /\ CircuitBoardEditor_new
    /\ props = NoProps
    /\ panicked = FALSE
    /\ last = "new"
    /\ frame = NoFrame

NextBoards ==
    \/ \E inp \in PasteInputs : draw_background(inp)
    \/ \E inp \in UiInputs : draw_ui(inp)

SpecBoards == InitBoards /\ [][NextBoards]_vars

\* the editor with a circuit preview or the board's circuits selected
InitKeys ==
    /\ GeomIdle
    /\ GateIdle
    /\ LockIdle
    /\ SchedIdle
    /\ ordered_queue \in BOOLEAN
    /\ boards = {1}
    /\ active = 1
    /\ selected_id \in {SelectedItemId_None} \cup {SelectedItemId_Circuit(n) : n \in CircuitNames}
    /\ paste = FALSE
    /\ debug = FALSE
    /\ props = NoProps
    /\ panicked = FALSE
    /\ last = "new"
    /\ frame = NoFrame

NextKeys ==
    \/ \E inp \in KeyInputs : draw_background(inp)
    \/ draw_ui(UiNoInput)

SpecKeys == InitKeys /\ [][NextKeys]_vars

(***************************************************************************)
(* Properties                                                              *)
(***************************************************************************)
rot == transform.support.rotation

flp == transform.support.flip

\* C1: for every transform, footprint size and in-bounds position p,
\* backtransform_pos(size, transform_pos(size, p, s), s) = p.
C1_RoundTrip ==
    probe.fn = "transform_pos" => probe.back = probe.pos

\* C2: transform_pos of an in-bounds position lies inside transform_size(size),
\* and after recalculate every pin position is inside transformed_size.
C2_PlacedInsideFootprint ==
    /\ probe.fn = "transform_pos" => InFootprint(probe.placed, probe.tsize)
    /\ \A i \in DOMAIN pins : InFootprint(pins[i].pos, transformed_size)

C2_Witness ==
    /\ probe.fn = "transform_pos"
    /\ probe.support = "Automatic"
    /\ probe.pos = Vec(inner_size.x - 1, inner_size.y - 1)
    /\ inner_size.x # inner_size.y
    /\ probe.tsize = swapped(inner_size)
    /\ transformed_size = swapped(inner_size)
    /\ transform.flip /\ flp.present /\ flp.support = "Automatic"
    /\ pins # imp.pins

\* the boolean function a gate computes on its complete input set
GateFunction(g, ins) ==
    CASE g = "Or" -> \E i \in DOMAIN ins : ins[i]
      [] g = "Nor" -> ~(\E i \in DOMAIN ins : ins[i])
      [] g = "Nand" -> ~(\A i \in DOMAIN ins : ins[i])

\* C3: whenever a fold step of OR, NOR or NAND returns settled, the output is
\* the gate's boolean function of the complete input set.
C3_SettledIsFinal ==
    (gate \in {"Or", "Nor", "Nand"} /\ fin) => out = GateFunction(gate, inputs)

\* C4: NAND settles with output true on a false input, continues on a true
\* input, and a finished evaluation of a non-empty sequence gives NOT(AND).
C4_NandIsNotAnd ==
    gate = "Nand" =>
        /\ idx > 0 => ((fin <=> ~inputs[idx]) /\ (fin => out))
        /\ (pc = "done" /\ Len(inputs) > 0) => out = GateFunction("Nand", inputs)

\* C5: OR and NOR settle exactly on a true input, which is the first true
\* input of the sequence; OR outputs the input folded, NOR its negation.
C5_OrNorSettleOnFirstTrue ==
    (gate \in {"Or", "Nor"} /\ idx > 0) =>
        /\ fin <=> inputs[idx]
        /\ \A j \in 1..(idx - 1) : ~inputs[j]
        /\ out = (IF gate = "Or" THEN inputs[idx] ELSE ~inputs[idx])

C5_Witness ==
    /\ gate = "Or"
    /\ inputs = <<FALSE, FALSE, TRUE>>
    /\ idx = 3
    /\ out /\ fin

SeqPermutations(ins) ==
    {[i \in DOMAIN ins |-> ins[f[i]]] : f \in Permutations(DOMAIN ins)}

\* C6: for OR, NOR, NAND and XOR the finished evaluation of a non-empty input
\* sequence gives the output that evaluating any permutation of it gives.
C6_OrderIndependent ==
    (pc = "done" /\ gate \in FoldGates /\ Len(inputs) > 0) =>
        \A q \in SeqPermutations(inputs) : Evaluate(gate, q).out = out

C6_Witness ==
    /\ pc = "done"
    /\ gate = "Nor"
    /\ inputs = <<FALSE, TRUE, FALSE>>
    /\ idx = 2
    /\ ~out

RECURSIVE CountTrue(_)
CountTrue(ins) ==
    IF ins = <<>> THEN 0 ELSE (IF Head(ins) THEN 1 ELSE 0) + CountTrue(Tail(ins))

\* C7: folding all inputs through XOR from the initial state gives true
\* exactly when one input is true.
C7_XorExactlyOne ==
    (pc = "done" /\ gate = "Xor") => (out <=> CountTrue(inputs) = 1)

\* C8: XNOR process is true in parity mode iff the number of true inputs is
\* even, and without parity mode iff that number is not exactly 1.
C8_XnorProcess ==
    (pc = "done" /\ gate = "Xnor") =>
        out = (IF parity THEN CountTrue(inputs) \in {0, 2, 4, 6}
                         ELSE CountTrue(inputs) \notin {1})

C8_Witness ==
    /\ pc = "done"
    /\ gate = "Xnor"
    /\ parity
    /\ CountTrue(inputs) = 4
    /\ out

\* C9: transform_size swaps width and height exactly when the circuit has
\* rotation support matching the requested support and the axis of the current
\* direction differs from that of the default direction.
SwapCase(support) ==
    /\ rot.present
    /\ support = "None" \/ rot.support = support
    /\ (transform.dir \in {"Left", "Right"}) # (rot.default_dir \in {"Left", "Right"})

C9_TransformSize ==
    probe.fn \notin {"none", "occupies_quarter"} =>
        probe.tsize = (IF SwapCase(probe.support)
                       THEN Vec(inner_size.y, inner_size.x) ELSE inner_size)

C9_Witness ==
    /\ probe.fn = "transform_size"
    /\ probe.support = "Manual"
    /\ inner_size.x # inner_size.y
    /\ probe.tsize = Vec(inner_size.y, inner_size.x)

Mirror(p, size, ty) ==
    CASE ty = "Vertical" -> Vec(p.x, size.y - 1 - p.y)
      [] ty = "Horizontal" -> Vec(size.x - 1 - p.x, p.y)
      [] ty = "Both" -> Vec(size.x - 1 - p.x, size.y - 1 - p.y)

MirrorX(d) ==
    CASE d = "Left" -> "Right" [] d = "Right" -> "Left"
      [] d = "UpLeft" -> "UpRight" [] d = "UpRight" -> "UpLeft"
      [] d = "DownLeft" -> "DownRight" [] d = "DownRight" -> "DownLeft"
      [] OTHER -> d

MirrorY(d) ==
    CASE d = "Up" -> "Down" [] d = "Down" -> "Up"
      [] d = "UpLeft" -> "DownLeft" [] d = "DownLeft" -> "UpLeft"
      [] d = "UpRight" -> "DownRight" [] d = "DownRight" -> "UpRight"
      [] OTHER -> d

MirrorDir(d, ty) ==
    CASE ty = "Vertical" -> MirrorY(d)
      [] ty = "Horizontal" -> MirrorX(d)
      [] ty = "Both" -> MirrorX(MirrorY(d))

ManualRotation == rot.present /\ rot.support = "Manual"

ManualFlip == flp.present /\ flp.support = "Manual"

AutomaticFlipOn == transform.flip /\ flp.present /\ flp.support = "Automatic"

Unflipped == [transform EXCEPT !.flip = FALSE]

\* C10: with the requested support Automatic, a circuit with Manual rotation
\* is not rotated (but still flipped when its flip is Automatic), a circuit
\* with Manual flip is not flipped, and one with Manual support for both gets
\* size, positions and directions back unchanged.
C10_ManualIsSkipped ==
    /\ (probe.fn # "none" /\ probe.support = "Automatic") =>
        /\ ManualRotation =>
            /\ probe.tsize = inner_size
            /\ probe.fn = "transform_pos" =>
                probe.placed = (IF AutomaticFlipOn
                                THEN Mirror(probe.pos, inner_size, flp.ty)
                                ELSE probe.pos)
            /\ probe.fn = "transform_dir" =>
                probe.placed_dir = (IF AutomaticFlipOn
                                    THEN MirrorDir(probe.dir, flp.ty)
                                    ELSE probe.dir)
        /\ ManualFlip =>
            /\ probe.fn = "transform_pos" =>
                probe.placed = transform_pos(Unflipped, inner_size, probe.pos, "Automatic")
            /\ probe.fn = "transform_dir" =>
                probe.placed_dir = transform_dir(Unflipped, probe.dir, "Automatic")
    /\ (ManualRotation /\ ManualFlip) =>
        /\ transformed_size = inner_size
        /\ pins = imp.pins

C10_Witness ==
    /\ probe.fn = "transform_pos"
    /\ probe.support = "Automatic"
    /\ ManualRotation
    /\ AutomaticFlipOn
    /\ transform.dir # rot.default_dir
    /\ probe.placed # probe.pos

\* C11: transform_dir flips and turns in the order and sense of transform_pos:
\* the transformed neighbour of p in direction d is the transformed p moved one
\* cell in the transformed direction.
C11_DirFollowsPos ==
    probe.fn = "neighbour" =>
        probe.placed_next = VecAdd(probe.placed, D8_into_dir_isize(probe.placed_dir))

C11_Witness ==
    /\ probe.fn = "neighbour"
    /\ probe.support = "Automatic"
    /\ transform.flip /\ flp.present /\ flp.support = "Automatic" /\ flp.ty = "Vertical"
    /\ rot.present /\ rot.support = "Automatic"
    /\ rotated_counterclockwise_by(transform.dir, rot.default_dir) = "Left"
    /\ probe.dir = "Up"
    /\ probe.placed_dir = "Right"

\* C16: a gate with zero inputs yields its default state, false for OR, NOR,
\* NAND and XOR, without settling; every fold gives a boolean output and a
\* boolean settled flag for either input value.
C16_ZeroInputsDefault ==
    gate \in FoldGates =>
        /\ out \in BOOLEAN /\ fin \in BOOLEAN /\ state \in BOOLEAN
        /\ \A b \in BOOLEAN : fold(gate, state, b) \in
                [state : BOOLEAN, out : BOOLEAN, fin : BOOLEAN]
        /\ Len(inputs) = 0 => (out = FALSE /\ ~fin /\ out = init_state(gate))

C16_Witness ==
    /\ gate = "Nor"
    /\ inputs = <<>>
    /\ pc = "done"
    /\ ~out /\ ~fin

\* C17: the XOR fold never reports settled, inverts the state bit on a true
\* input, keeps it on a false input and outputs the updated state bit.
C17_XorFold ==
    [][(gate = "Xor" /\ idx' = idx + 1) =>
          /\ fin' = FALSE
          /\ state' = (IF inputs[idx'] THEN ~state ELSE state)
          /\ out' = state']_vars

C17_Witness ==
    /\ gate = "Xor"
    /\ inputs = <<TRUE, FALSE, TRUE, TRUE>>
    /\ idx = 4
    /\ state /\ out /\ ~fin

\* C18: transform_pins replaces every pin position by transform_pos of it,
\* transforms a direction with the same transform and requested support, and
\* leaves an absent direction absent.
C18_PinsPosAndDir ==
    \A i \in DOMAIN pins :
        LET d == imp_describe_pins(imp, transform)[i]
        IN  /\ pins[i].pos = transform_pos(transform, inner_size, d.pos, "Automatic")
            /\ d.dir = "None" => pins[i].dir = "None"
            /\ d.dir # "None" =>
                    pins[i].dir = transform_dir(transform, d.dir, "Automatic")

C18_Witness ==
    /\ imp.id = "generic"
    /\ transform.flip /\ flp.present /\ flp.support = "Automatic"
    /\ rot.present /\ rot.support = "Automatic" /\ transform.dir # rot.default_dir
    /\ pins[2].dir = "None"
    /\ pins[2].pos # imp.pins[2].pos
    /\ pins[1].dir # imp.pins[1].dir

TestTransforms == [support : {TestCircuit.support}, dir : Direction4, flip : BOOLEAN]

\* C19: TestCircuit gives the size 4x3, the same pins and the same occupancy
\* of every quarter with x < 8 and y < 6 for any two transforms, and the
\* default occupies_quarter reports every quarter occupied.
C19_TransformIgnored ==
    /\ imp = TestCircuit =>
        /\ inner_size = Vec(4, 3)
        /\ \A t \in TestTransforms :
            /\ TestCircuit_size(t) = inner_size
            /\ TestCircuit_describe_pins(t) = TestCircuit_describe_pins(transform)
        /\ probe.fn = "occupies_quarter" =>
            \A t \in TestTransforms :
                TestCircuit_occupies_quarter(t, probe.pos) = probe.occupied
    /\ (imp # TestCircuit /\ probe.fn = "occupies_quarter") => probe.occupied

C19_Witness ==
    /\ imp = TestCircuit
    /\ transform.dir = "Up"
    /\ transform.flip
    /\ probe.fn = "occupies_quarter"
    /\ probe.pos = Vec(3, 4)
    /\ ~probe.occupied

NonNegative(v) == v.x >= 0 /\ v.y >= 0

\* C20: for in-bounds arguments no unsigned subtraction of transform_pos or
\* backtransform_pos goes below zero.
C20_NoUnderflow ==
    probe.fn = "transform_pos" =>
        /\ NonNegative(transform_pos_flipped_pos(transform, inner_size,
                                                 probe.pos, probe.support))
        /\ NonNegative(probe.placed)
        /\ InFootprint(probe.placed, probe.tsize) =>
            /\ NonNegative(backtransform_pos_rotated_pos(transform, inner_size,
                                                         probe.placed, probe.support))
            /\ NonNegative(probe.back)

\* C12: key Q changes the ordered-queue flag only with the simulation lock
\* and the board lock both held for writing; the simulation lock is asked for
\* with no board lock held and is held when the board write lock is taken;
\* the flag is inverted exactly once per toggle; the handler leaves with the
\* simulation lock released.
C12_ToggleUnderLocks ==
    /\ [](/\ ui.pc = "sim_write" => ~holds(board_lock, "ui")
          /\ ui.pc = "idle" =>
                /\ ~holds(sim_lock, "ui")
                /\ ~holds(board_lock, "ui")
                /\ ui.writes = ui.toggles
          /\ ui.writes \in {ui.toggles, ui.toggles + 1})
    /\ [][/\ ordered_queue' # ordered_queue =>
                /\ sim_lock.writer = "ui" /\ sim_lock.readers = {}
                /\ board_lock.writer = "ui" /\ board_lock.readers = {}
                /\ ui'.writes = ui.writes + 1
          /\ ui'.writes # ui.writes => ordered_queue' = ~ordered_queue
          /\ (board_lock'.writer = "ui" /\ board_lock.writer # "ui") =>
                sim_lock.writer = "ui"
          /\ (sim_lock'.writer = "ui" /\ sim_lock.writer # "ui") =>
                ~holds(board_lock, "ui")]_vars

C12_Witness ==
    /\ ui.pc = "drop"
    /\ ui.toggles = 1
    /\ ui.writes = 2
    /\ simth.pc = "idle"
    /\ simth.seen # ordered_queue
    /\ sim_lock.writer = "ui"
    /\ board_lock.writer = "ui"

\* the topologies no schedule drives to the iteration cap
StableTopologies == {"chain", "hold"}

\* C13: on a stable topology a finished wave leaves the circuit outputs and
\* wire values that the same wave leaves with the queue ordered throughout,
\* whatever the mode was and however often key Q was pressed during it.
C13_ToggleKeepsSettledState ==
    topo \in StableTopologies =>
        /\ status # "unstable"
        /\ status = "settled" =>
                /\ expected.status = "settled"
                /\ cout = expected.cout
                /\ wval = expected.wval

C13_Witness ==
    /\ topo = "chain"
    /\ status = "settled"
    /\ expected.toggled
    /\ expected.origin = "input"
    /\ ~ordered_queue
    /\ inval[1]
    /\ wval[1] /\ ~wval[2] /\ ~wval[3]

FixedPoint ==
    /\ \A k \in DOMAIN cout : cout[k] = circuit_output(topo, Board, k)
    /\ \A w \in DOMAIN wval : wval[w] = wire_value(topo, Board, w)

\* C14: a wave takes at most IterationCap passes of at most one step per
\* item, a running wave always has a step to take, it ends settled only in a
\* fixed point with nothing dirty and unstable only at the cap; the NOT loop
\* never ends settled.
C14_WaveEnds ==
    topo \in Topologies =>
        /\ iter <= IterationCap
        /\ steps <= IterationCap * Cardinality(Items(topo))
        /\ status = "running" =>
                /\ iter < IterationCap
                /\ cur # {} \/ ENABLED EndPass
        /\ status = "settled" => (cur = {} /\ nxt = {} /\ FixedPoint)
        /\ status = "unstable" => (iter = IterationCap /\ cur # {})
        /\ topo = "notloop" => status # "settled"

C14_Witness ==
    /\ topo = "notloop"
    /\ ~ordered_queue
    /\ ~expected.toggled
    /\ status = "unstable"
    /\ iter = IterationCap

C21_Bijection ==
    probe.fn = "transform_pos" =>
        /\ \A q \in Cells(inner_size) \ {probe.pos} :
                transform_pos(transform, inner_size, q, probe.support) # probe.placed
        /\ {transform_pos(transform, inner_size, q, probe.support) :
                q \in Cells(inner_size)} = Cells(probe.tsize)

C21_Witness ==
    /\ probe.fn = "transform_pos"
    /\ probe.support = "Manual"
    /\ rot.present /\ rot.support = "Manual"
    /\ flp.present /\ flp.support = "Manual" /\ flp.ty = "Horizontal"
    /\ transform.flip
    /\ inner_size = Vec(1, 3)
    /\ probe.tsize = Vec(3, 1)
    /\ probe.pos = Vec(0, 2)
    /\ probe.placed # Vec(2, 0)

\* C22: with the transform a new blueprint starts with, transform_size gives
\* the size, transform_pos the position and transform_dir the direction they
\* are given, and inner_size is transformed_size.
C22_NewIsIdentity ==
    transform = CircuitBlueprint_new(imp).transform =>
        /\ inner_size = transformed_size
        /\ probe.fn \in {"transform_size", "transform_pos", "transform_dir"} =>
                probe.tsize = inner_size
        /\ probe.fn = "transform_pos" => probe.placed = probe.pos
        /\ probe.fn = "transform_dir" => probe.placed_dir = probe.dir

C22_Witness ==
    /\ transform = CircuitBlueprint_new(imp).transform
    /\ rot.present /\ rot.support = "Automatic" /\ rot.default_dir = "Left"
    /\ flp.present /\ flp.support = "Automatic" /\ flp.ty = "Both"
    /\ probe.fn = "transform_dir"
    /\ probe.support = "Automatic"
    /\ probe.dir = "DownLeft"
    /\ probe.placed_dir = "DownLeft"
    /\ inner_size = Vec(2, 3)

\* C23: the blueprint is the one recalculate derives from the implementation
\* and the current transform alone, and recalculate leaves it as it is.
C23_RecalculateHistoryFree ==
    /\ [](/\ inner_size = imp_size(imp, transform)
          /\ transformed_size = transform_size(transform, inner_size, "Automatic")
          /\ pins = transform_pins(transform, inner_size,
                                   imp_describe_pins(imp, transform), "Automatic"))
    /\ [][Recalculate =>
            UNCHANGED <<transform, inner_size, transformed_size, pins>>]_vars

C23_Witness ==
    /\ imp = TestCircuit
    /\ transform.dir = "Left"
    /\ transform.flip
    /\ transformed_size = Vec(4, 3)
    /\ pins[5].pos # Vec(3, 1)
    /\ pins[5].dir # "Right"
    /\ probe.fn = "none"

\* C24: the output of XOR after all inputs are folded is the state before
\* the first fold XOR the parity of the true inputs; it is that parity exactly
\* when the state started false.
C24_XorCarriedState ==
    (gate = "Xor" /\ pc = "done") =>
        LET odd == CountTrue(inputs) \in {1, 3, 5}
        IN  /\ out = (state0 # odd)
            /\ (out = odd) <=> (state0 = Xor_init_state)

C24_Witness ==
    /\ gate = "Xor"
    /\ pc = "done"
    /\ state0
    /\ inputs = <<TRUE, FALSE, TRUE>>
    /\ out

\* C25: in parity mode XNOR process is the negation of the output of XOR
\* folded over the same inputs from init_state.
C25_XnorIsNotXor ==
    /\ (gate = "Xor" /\ pc = "done") => out = ~Xnor_process(inputs, TRUE)
    /\ (gate = "Xnor" /\ pc = "done" /\ parity) => out = ~Evaluate("Xor", inputs).out

C25_Witness ==
    /\ gate = "Xnor"
    /\ pc = "done"
    /\ parity
    /\ inputs = <<TRUE, TRUE, FALSE, TRUE>>
    /\ ~out

\* C26: after any sequence of add-board and delete-board frames the
\* simulation holds at least one board, the "Boards must exist!" expectation
\* has not failed and the active board is one of the boards held; a frame
\* removes at most one board, and none while at most one board is held.
C26_BoardsMustExist ==
    /\ [](boards # {} /\ active \in boards /\ ~panicked)
    /\ [][/\ Cardinality(boards') >= Cardinality(boards) - 1
          /\ Cardinality(boards) <= 1 => boards \subseteq boards']_vars

C26_Witness ==
    /\ last = "draw_ui"
    /\ boards = {3}
    /\ active = 3
    /\ selected_id = SelectedItemId_Board(1)

\* C27: when a draw_ui frame ends, selected_id is Paste exactly when a paste
\* preview is held; the match that ends the frame drops the preview under
\* any other selection and resets a Paste selection without a preview to
\* None; selected_item() returns Paste only with a preview held.
C27_PasteIffHeld ==
    /\ last = "draw_ui" => (selected_id = SelectedItemId_Paste <=> paste)
    /\ selected_item(selected_id, paste, boards) = "Paste" => paste
    /\ \A sel \in SelectedItemIds, held \in BOOLEAN :
            LET sp == sync_paste(sel, held)
            IN  /\ sp.selected_id = SelectedItemId_Paste <=> sp.paste
                /\ sel # SelectedItemId_Paste => sp.selected_id = sel
                /\ (sel = SelectedItemId_Paste /\ ~held) =>
                        sp.selected_id = SelectedItemId_None

C27_Witness ==
    /\ last = "draw_ui"
    /\ frame.paste
    /\ ~paste
    /\ selected_id = SelectedItemId_Selection

\* C28: a draw_background frame in which the UI wants keyboard input leaves
\* the debug flag, the active board, the dir and flip properties and the
\* ordered-queue flag as they were and makes no call on the board or the
\* simulation state, whichever keys are pressed; otherwise only the first
\* pressed key of F9, F8, F7, F4 acts.
C28_ShortcutsGuarded ==
    [][last' = "draw_background" =>
        LET k == frame'.keys
        IN  /\ frame'.wants =>
                    /\ debug' = debug
                    /\ active' = active
                    /\ props' = props
                    /\ ordered_queue' = ordered_queue
                    /\ frame'.calls = <<>>
            /\ ~frame'.wants =>
                    /\ debug' = (IF "F9" \in k THEN ~debug ELSE debug)
                    /\ frame'.calls =
                            (IF "F9" \in k THEN <<>>
                             ELSE IF "F8" \in k THEN <<"ActiveCircuitBoard::new">>
                             ELSE IF "F7" \in k THEN <<"regenerate_temp_design">>
                             ELSE IF "F4" \in k THEN <<"reset", "update_everything">>
                             ELSE <<>>)]_vars

C28_Witness ==
    /\ last = "draw_background"
    /\ frame.wants
    /\ frame.keys = {"F9", "R"}
    /\ debug
    /\ props.preview.dir = "Right"
    /\ ordered_queue

====
